---- MODULE Spec2Model ----
(***************************************************************************)
(* The error signalling layer of the Argent Core Library (src/core.h):     *)
(* the AG_TRY / AG_CATCH / AG_FINALLY region markers, the ag_assert and    *)
(* ag_try checks and the ag_erno_get / ag_erno_set slot accessors.         *)
(*                                                                         *)
(* The state is a call stack of activations.  Every activation is a        *)
(* function written in the convention; the statements of its three         *)
(* regions are drawn one at a time, so a behaviour of the model is one run *)
(* of one program and the set of behaviours ranges over all programs that  *)
(* execute at most MaxStmts statements in at most MaxDepth nested calls.   *)
(***************************************************************************)
EXTENDS Integers, Sequences, FiniteSets, TLC

(* ---- bounds ----------------------------------------------------------- *)
\* statements executed in one run, over all its activations
MaxStmts == 3
\* activations on the call stack
MaxDepth == 3
\* characters of a string passed to ag_assert_string
MaxStrLen == 1
\* activations that run concurrently, and the statements they execute in all
NActs == 2
MaxParStmts == 3
\* the values -HintRange..HintRange of a predicate passed to a hint
HintRange == 2

(* ---- reserved error codes, core.h:622-675 ------------------------------ *)
AG_ERNO_NULL == 0
AG_ERNO_HANDLE == 1
AG_ERNO_STATE == 2
AG_ERNO_RANGE == 3
\* AG_ERNO_STRING given the value of AG_ERNO_RANGE
AG_ERNO_STRING_reused == AG_ERNO_RANGE

AG_ERNO_STRING == 4
\* one caller-defined code above the reserved range
UserCode == 5

Reserved == {AG_ERNO_NULL, AG_ERNO_HANDLE, AG_ERNO_STATE, AG_ERNO_RANGE, AG_ERNO_STRING}
Codes == Reserved \cup {UserCode}

\* values of the integer x of a predicate; a predicate is either the bare
\* value x (any non-zero value is true) or the comparison x > 0
Xs == {-1, 0, 1, 2}
Preds == [form : {"val", "gt0"}, x : Xs]

\* the value of a predicate expression, as C computes it
Eval(pr) == IF pr.form = "gt0" THEN (IF pr.x > 0 THEN 1 ELSE 0) ELSE pr.x

\* C's logical negation
CNot(v) == IF v = 0 THEN 1 ELSE 0

\* characters of a string: "a", and the byte 0xE9 read as a signed char
Chars == {97, -23}

\* the strings of at most n characters
RECURSIVE StringsUpTo(_)
StringsUpTo(n) ==
    IF n = 0 THEN {<<>>}
    ELSE StringsUpTo(n - 1) \cup
         {Append(t, c) : t \in {u \in StringsUpTo(n - 1) : Len(u) = n - 1}, c \in Chars}

\* a const ag_string *: a null pointer, or a pointer to characters that a
\* terminating zero follows
Strings == {[null |-> TRUE, chars |-> <<>>]} \cup
           {[null |-> FALSE, chars |-> t] : t \in StringsUpTo(MaxStrLen)}

\* *(s) for a pointer s that is not null
Deref(s) == IF Len(s.chars) = 0 THEN 0 ELSE s.chars[1]

\* slot value before AG_TRY has declared the slot
Undeclared == -1
None == -1

VARIABLES stack, last, steps

vars == <<stack, last, steps>>

(* ---- the compiler module -------------------------------------------------- *)
AG_COMPILER_GNUC == 0
AG_COMPILER_CLANG == 1

(* ---- the hint layer ----------------------------------------------------- *)
\* __builtin_expect(!!(p), 1): the value is !!(p)
ag_likely(p) == CNot(CNot(p))

\* the hint written with one negation
ag_unlikely_single_not(p) == CNot(p)

\* __builtin_expect(!!(p), 0): the value is !!(p)
ag_unlikely(p) == CNot(CNot(p))

\* #define ag_likely / #define ag_unlikely with an empty replacement:
\* ag_likely (p) is the parenthesised predicate
hint_bare(p) == p

(* ---- control flow primitives ------------------------------------------- *)
RegionOf(label) ==
    CASE label = "AG__TRY__" -> "try"
      [] label = "AG__CATCH__" -> "catch"
      [] label = "AG__FINALLY__" -> "finally"

\* control reaches a label, by goto or by falling into it
Goto(f, label) ==
    [f EXCEPT !.pc = RegionOf(label), !.regions = Append(@, RegionOf(label))]

(* ---- the slot accessors ------------------------------------------------- *)
ag_erno_get(f) == f.erno

\* a slot too narrow for the codes above 0x3
ag_erno_set_narrow(f, e) == [f EXCEPT !.erno = e % 4]

ag_erno_set(f, e) == [f EXCEPT !.erno = e]

(* ---- the region markers ------------------------------------------------- *)
\* register ag_erno ag__erno__ = AG_ERNO_NULL; goto AG__TRY__; AG__TRY__:
AG_TRY(f) == Goto([f EXCEPT !.erno = AG_ERNO_NULL], "AG__TRY__")

\* AG_CATCH without its goto: the try block falls into the catch block
AG_CATCH_fallthrough(f) == Goto(f, "AG__CATCH__")

\* goto AG__FINALLY__; AG__CATCH__:   (reached from the end of the try block)
AG_CATCH(f) == Goto(f, "AG__FINALLY__")

\* AG_FINALLY naming the catch label: the catch block runs again
AG_FINALLY_wrong_label(f) == Goto(f, "AG__CATCH__")

\* AG_FINALLY that initialises the slot again
AG_FINALLY_resets(f) == Goto([f EXCEPT !.erno = AG_ERNO_NULL], "AG__FINALLY__")

\* AG__FINALLY__:                     (reached from the end of the catch block)
AG_FINALLY(f) == Goto(f, "AG__FINALLY__")

(* ---- the checks ---------------------------------------------------------- *)
\* ag_assert without its goto
ag_assert_no_goto(f, p, e) ==
    IF ag_unlikely(CNot(p)) # 0 THEN [f EXCEPT !.erno = e] ELSE f

\* ag_assert that takes only the value 1 for true
ag_assert_only_one(f, p, e) ==
    IF p # 1 THEN Goto([f EXCEPT !.erno = e], "AG__CATCH__") ELSE f

\* ag_assert that raises AG_ERNO_HANDLE whatever its e
ag_assert_fixed_code(f, p, e) ==
    IF ag_unlikely(CNot(p)) # 0
    THEN Goto([f EXCEPT !.erno = AG_ERNO_HANDLE], "AG__CATCH__")
    ELSE f

\* if (ag_unlikely (!(p))) { ag__erno__ = (e); goto AG__CATCH__; }
ag_assert(f, p, e) ==
    IF ag_unlikely(CNot(p)) # 0
    THEN Goto([f EXCEPT !.erno = e], "AG__CATCH__")
    ELSE f

\* ag_assert_handle that raises the code of ag_assert_state
ag_assert_handle_wrong_code(f, p) == ag_assert(f, p, AG_ERNO_STATE)

\* ag_assert((p), AG_ERNO_HANDLE)
ag_assert_handle(f, p) == ag_assert(f, p, AG_ERNO_HANDLE)

\* ag_assert((p), AG_ERNO_STATE)
ag_assert_state(f, p) == ag_assert(f, p, AG_ERNO_STATE)

\* ag_assert((p), AG_ERNO_RANGE)
ag_assert_range(f, p) == ag_assert(f, p, AG_ERNO_RANGE)

\* the wrapper named w
Wrapper(w, f, p) ==
    CASE w = "ag_assert_handle" -> ag_assert_handle(f, p)
      [] w = "ag_assert_state" -> ag_assert_state(f, p)
      [] w = "ag_assert_range" -> ag_assert_range(f, p)

\* (s) && *(s): its value, and whether it read the first character of s
StringPred(s) ==
    IF s.null THEN [val |-> 0, read |-> FALSE]
    ELSE [val |-> IF Deref(s) # 0 THEN 1 ELSE 0, read |-> TRUE]

\* ag_assert_string that tests the pointer only
ag_assert_string_ptr_only(f, s) ==
    ag_assert(f, IF s.null THEN 0 ELSE 1, AG_ERNO_STRING)

\* ag_assert((s) && *(s), AG_ERNO_STRING)
ag_assert_string(f, s) == ag_assert(f, StringPred(s).val, AG_ERNO_STRING)

\* ag_try that tests the result without storing it
ag_try_no_store(f, r) ==
    IF ag_unlikely(r) # 0 THEN Goto(f, "AG__CATCH__") ELSE f

\* if (ag_unlikely (ag__erno__ = (p))) goto AG__CATCH__;
ag_try(f, r) ==
    LET g == [f EXCEPT !.erno = r]
    IN  IF ag_unlikely(g.erno) # 0 THEN Goto(g, "AG__CATCH__") ELSE g

(* ---- activations --------------------------------------------------------- *)
\* values of the observation "sole" below: no statement yet, and statements
\* other than a single ag_assert(x > 0, AG_ERNO_RANGE), whose value is <<x>>
NoStmt == <<>>
Other == <<0, 0>>

\* An activation.  pc, erno, call and ret are the program's state; the other
\* fields observe the run: regions lists the regions entered in order,
\* firstFail is the code of the first check that failed, after says a guarded
\* statement ran after a failed check, viol says a check was used outside the
\* guarded region, wr is the set of regions in which the slot was assigned,
\* sets the set of regions in which ag_erno_set was used, lastSet the code of
\* an ag_erno_set that was the activation's latest statement, sole the x of
\* an ag_assert(x > 0, AG_ERNO_RANGE) that is the activation's only statement,
\* src the code with which the deepest activation of a chain of ag_try calls
\* failed, below the regions in which the activations of that chain assigned
\* their slots (and "viol" if one of them used a check outside its guarded
\* region), chain the number of those activations and failKind the name of
\* the check that failed first; lastWr is the value of the latest assignment
\* to the slot by a statement of the body.
NewFrame ==
    [pc |-> "start", erno |-> Undeclared, call |-> "none", ret |-> None,
     regions |-> <<>>, firstFail |-> None, after |-> FALSE, viol |-> FALSE,
     wr |-> {}, sets |-> {}, lastSet |-> None, sole |-> NoStmt, src |-> None,
     below |-> {}, chain |-> 0, failKind |-> "none", retval |-> None,
     lastWr |-> None]

\* the statement executed last: its name, the value p of its predicate, its
\* code e, the slot, the region and the number of regions entered before it,
\* the value val it yielded, the activation fin it ended and its argument arg
\* when that is not a number
NoOp == [op |-> "none", p |-> None, e |-> None, erno0 |-> None,
         pc0 |-> "none", nreg0 |-> 0, val |-> None, fin |-> NewFrame,
         arg |-> <<>>]

Top == stack[Len(stack)]

\* a slot with static storage: one ag__erno__ for all activations
Store_static(st, i, g) ==
    [j \in 1..Len(st) |-> IF j = i THEN g ELSE [st[j] EXCEPT !.erno = g.erno]]

\* activation i becomes g: register ag_erno ag__erno__ is a local of the
\* function body, so every activation has a slot of its own
Store(st, i, g) == [st EXCEPT ![i] = g]

SetTop(f) == Store(stack, Len(stack), f)

\* the statements that are checks
Checks == {"ag_assert", "ag_assert_handle", "ag_assert_state", "ag_assert_range",
           "ag_assert_string", "ag_try"}

InBody(f) == f.pc \in {"try", "catch", "finally"} /\ f.call = "none"

CanRun(f) == InBody(f) /\ steps < MaxStmts

\* the observations of one statement that took f to g: kind is the statement,
\* fails says its check failed, code is its code, writes says it assigned the
\* slot, x is the sole observation it leaves
Observe(f, g, kind, fails, code, writes, x) ==
    [g EXCEPT !.firstFail = IF f.firstFail = None /\ fails THEN code ELSE @,
              !.failKind = IF f.firstFail = None /\ fails THEN kind ELSE @,
              !.after = @ \/ (f.pc = "try" /\ f.firstFail # None),
              !.viol = @ \/ (kind \in Checks /\ f.pc # "try"),
              !.wr = IF writes THEN @ \cup {f.pc} ELSE @,
              !.sets = IF kind = "ag_erno_set" THEN @ \cup {f.pc} ELSE @,
              !.lastSet = IF kind = "ag_erno_set" THEN code ELSE None,
              !.sole = IF f.sole = NoStmt THEN x ELSE Other,
              !.lastWr = IF writes THEN code ELSE @]

Op(name, f, p, e, v) ==
    [op |-> name, p |-> p, e |-> e, erno0 |-> f.erno, pc0 |-> f.pc,
     nreg0 |-> Len(f.regions), val |-> v, fin |-> NewFrame, arg |-> <<>>]

Init ==
    /\ stack = <<NewFrame>>
    /\ last = NoOp
    /\ steps = 0

\* AG_TRY at the beginning of the function body
Enter ==
    /\ Top.pc = "start"
    /\ stack' = SetTop(AG_TRY(Top))
    /\ last' = Op("AG_TRY", Top, None, None, None)
    /\ UNCHANGED steps

\* ag_assert(p, e)
AssertStmt ==
    /\ CanRun(Top)
    /\ \E pr \in Preds, e \in Codes :
          LET p == Eval(pr)
              g == ag_assert(Top, p, e)
              x == IF pr.form = "gt0" /\ e = AG_ERNO_RANGE THEN <<pr.x>> ELSE Other
          IN  /\ stack' = SetTop(Observe(Top, g, "ag_assert", p = 0, e, p = 0, x))
              /\ last' = Op("ag_assert", Top, p, e, None)
    /\ steps' = steps + 1

\* ag_assert_handle(p), ag_assert_state(p) or ag_assert_range(p)
WrapperStmt ==
    /\ CanRun(Top)
    /\ \E w \in {"ag_assert_handle", "ag_assert_state", "ag_assert_range"},
          pr \in Preds :
          LET p == Eval(pr)
              g == Wrapper(w, Top, p)
              c == CASE w = "ag_assert_handle" -> AG_ERNO_HANDLE
                     [] w = "ag_assert_state" -> AG_ERNO_STATE
                     [] w = "ag_assert_range" -> AG_ERNO_RANGE
          IN  /\ stack' = SetTop(Observe(Top, g, w, p = 0, c, p = 0, Other))
              /\ last' = Op(w, Top, p, None, None)
    /\ steps' = steps + 1

\* ag_assert_string(s)
AssertStringStmt ==
    /\ CanRun(Top)
    /\ \E s \in Strings :
          LET q == StringPred(s)
              g == ag_assert_string(Top, s)
              bad == s.null \/ Len(s.chars) = 0
          IN  /\ stack' = SetTop(Observe(Top, g, "ag_assert_string", bad,
                                          AG_ERNO_STRING, bad, Other))
              /\ last' = [Op("ag_assert_string", Top, None, None,
                              IF q.read THEN 1 ELSE 0) EXCEPT !.arg = s]
    /\ steps' = steps + 1

\* ag_try(expr), expr a sub-operation outside the convention that yields r
TryStmt ==
    /\ CanRun(Top)
    /\ \E r \in Codes :
          LET g == ag_try(Top, r)
          IN  /\ stack' = SetTop(Observe(Top, g, "ag_try", r # 0, r, TRUE, Other))
              /\ last' = Op("ag_try", Top, None, r, None)
    /\ steps' = steps + 1

\* ag_try(B()) or a bare B(): the call of an activation of the convention
CallStmt ==
    /\ CanRun(Top)
    /\ Len(stack) < MaxDepth
    /\ \E how \in {"ag_try", "plain"} :
          /\ stack' = Append(SetTop([Top EXCEPT !.call = how, !.lastSet = None,
                                                !.sole = Other]),
                             NewFrame)
          /\ last' = Op("call", Top, None, None, None)
    /\ steps' = steps + 1

\* ag_erno_set(e)
SetStmt ==
    /\ CanRun(Top)
    /\ \E e \in Codes :
          /\ stack' = SetTop(Observe(Top, ag_erno_set(Top, e), "ag_erno_set",
                                      FALSE, e, TRUE, Other))
          /\ last' = Op("ag_erno_set", Top, None, e, None)
    /\ steps' = steps + 1

\* ag_erno_get() as a statement of any region
GetStmt ==
    /\ CanRun(Top)
    /\ stack' = SetTop(Observe(Top, Top, "ag_erno_get", FALSE, None, FALSE, Other))
    /\ last' = Op("ag_erno_get", Top, None, Top.lastSet, ag_erno_get(Top))
    /\ steps' = steps + 1

\* the end of the try block: control reaches AG_CATCH
EndTry ==
    /\ InBody(Top) /\ Top.pc = "try"
    /\ stack' = SetTop(AG_CATCH(Top))
    /\ last' = Op("AG_CATCH", Top, None, None, None)
    /\ UNCHANGED steps

\* the end of the catch block: control reaches AG_FINALLY
EndCatch ==
    /\ InBody(Top) /\ Top.pc = "catch"
    /\ stack' = SetTop(AG_FINALLY(Top))
    /\ last' = Op("AG_FINALLY", Top, None, None, None)
    /\ UNCHANGED steps

\* the observations a caller keeps of the activation d that returned to its
\* ag_try: the code the chain below first failed with, and where the chain's
\* activations assigned their slots
Propagated(c, d) ==
    [c EXCEPT !.src = IF d.src # None THEN d.src ELSE d.firstFail,
              !.below = d.below \cup d.wr \cup (IF d.viol THEN {"viol"} ELSE {}),
              !.chain = d.chain + 1]

\* a caller that propagates the result of a bare call as ag_try does
PlainReturn_unwinds(c, v) == ag_try([c EXCEPT !.call = "none"], v)

\* B(); the caller c of a bare call drops the result v and goes on
PlainReturn(c, v) == [c EXCEPT !.call = "none"]

\* what a return records of the caller c it returns to
CallerSeen(c) ==
    [how |-> c.call, erno |-> c.erno, pc |-> c.pc, nreg |-> Len(c.regions)]

\* return ag_erno_get(); at the end of the finally block
Return ==
    /\ InBody(Top) /\ Top.pc = "finally"
    /\ LET v == ag_erno_get(Top)
           d == [Top EXCEPT !.pc = "done", !.retval = v]
       IN  /\ IF Len(stack) = 1
              THEN /\ stack' = SetTop(d)
                   /\ last' = [Op("return", Top, None, None, v) EXCEPT
                                 !.fin = d, !.arg = CallerSeen(NewFrame)]
              ELSE LET c == stack[Len(stack) - 1]
                       c2 == IF c.call = "ag_try"
                             THEN [Propagated(c, d) EXCEPT !.call = "ag_try_ret",
                                                           !.ret = v]
                             ELSE PlainReturn(c, v)
                   IN  /\ stack' = SubSeq(stack, 1, Len(stack) - 2) \o <<c2>>
                       /\ last' = [Op("return", Top, None, None, v) EXCEPT
                                     !.fin = d, !.arg = CallerSeen(c)]
    /\ UNCHANGED steps

\* the second half of ag_try(B()): B has returned ret
TryReturn ==
    /\ Top.call = "ag_try_ret"
    /\ LET f == [Top EXCEPT !.call = "none"]
           g == ag_try(f, Top.ret)
       IN  /\ stack' = SetTop(Observe(f, g, "ag_try", Top.ret # 0, Top.ret, TRUE, Other))
           /\ last' = Op("ag_try", f, None, Top.ret, None)
    /\ UNCHANGED steps

Next ==
    \/ Enter
    \/ AssertStmt
    \/ WrapperStmt
    \/ AssertStringStmt
    \/ TryStmt
    \/ CallStmt
    \/ SetStmt
    \/ GetStmt
    \/ EndTry
    \/ EndCatch
    \/ Return
    \/ TryReturn

Spec == Init /\ [][Next]_vars

(* ---- concurrent activations ------------------------------------------------ *)
\* NActs activations, each on a thread of its own, interleaved statement by
\* statement; stack[i] is the activation of thread i.
InitPar ==
    /\ stack = [i \in 1..NActs |-> NewFrame]
    /\ last = NoOp
    /\ steps = 0

\* the record of a statement of activation i
OpOf(i, name, p, e, v) == [Op(name, stack[i], p, e, v) EXCEPT !.arg = [who |-> i]]

ParRun(i) == InBody(stack[i]) /\ steps < MaxParStmts

\* the codes and predicate values the concurrent activations use
ParCodes == {AG_ERNO_NULL, AG_ERNO_HANDLE, UserCode}
ParPreds == {0, 1}

ParEnter(i) ==
    /\ stack[i].pc = "start"
    /\ stack' = Store(stack, i, AG_TRY(stack[i]))
    /\ last' = OpOf(i, "AG_TRY", None, None, None)
    /\ UNCHANGED steps

ParAssert(i) ==
    /\ ParRun(i)
    /\ \E p \in ParPreds, e \in ParCodes :
          LET g == ag_assert(stack[i], p, e)
          IN  /\ stack' = Store(stack, i,
                                Observe(stack[i], g, "ag_assert", p = 0, e, p = 0, Other))
              /\ last' = OpOf(i, "ag_assert", p, e, None)
    /\ steps' = steps + 1

ParTry(i) ==
    /\ ParRun(i)
    /\ \E r \in ParCodes :
          LET g == ag_try(stack[i], r)
          IN  /\ stack' = Store(stack, i,
                                Observe(stack[i], g, "ag_try", r # 0, r, TRUE, Other))
              /\ last' = OpOf(i, "ag_try", None, r, None)
    /\ steps' = steps + 1

ParSet(i) ==
    /\ ParRun(i)
    /\ \E e \in ParCodes :
          /\ stack' = Store(stack, i,
                            Observe(stack[i], ag_erno_set(stack[i], e), "ag_erno_set",
                                    FALSE, e, TRUE, Other))
          /\ last' = OpOf(i, "ag_erno_set", None, e, None)
    /\ steps' = steps + 1

ParGet(i) ==
    /\ ParRun(i)
    /\ stack' = Store(stack, i,
                      Observe(stack[i], stack[i], "ag_erno_get", FALSE, None, FALSE, Other))
    /\ last' = OpOf(i, "ag_erno_get", None, stack[i].lastSet, ag_erno_get(stack[i]))
    /\ steps' = steps + 1

ParEndTry(i) ==
    /\ InBody(stack[i]) /\ stack[i].pc = "try"
    /\ stack' = Store(stack, i, AG_CATCH(stack[i]))
    /\ last' = OpOf(i, "AG_CATCH", None, None, None)
    /\ UNCHANGED steps

ParEndCatch(i) ==
    /\ InBody(stack[i]) /\ stack[i].pc = "catch"
    /\ stack' = Store(stack, i, AG_FINALLY(stack[i]))
    /\ last' = OpOf(i, "AG_FINALLY", None, None, None)
    /\ UNCHANGED steps

ParReturn(i) ==
    /\ InBody(stack[i]) /\ stack[i].pc = "finally"
    /\ LET v == ag_erno_get(stack[i])
           d == [stack[i] EXCEPT !.pc = "done", !.retval = v]
       IN  /\ stack' = Store(stack, i, d)
           /\ last' = [OpOf(i, "return", None, None, v) EXCEPT !.fin = d]
    /\ UNCHANGED steps

NextPar ==
    \E i \in 1..NActs :
        \/ ParEnter(i)
        \/ ParAssert(i)
        \/ ParTry(i)
        \/ ParSet(i)
        \/ ParGet(i)
        \/ ParEndTry(i)
        \/ ParEndCatch(i)
        \/ ParReturn(i)

SpecPar == InitPar /\ [][NextPar]_vars

(* ---- translation of core.h ---------------------------------------------------- *)
\* The second specification translates core.h and uses what it defines.
\* stack holds one record, the translation: the macros the toolchain
\* predefines, whether the toolchain stops at #error, the index pos of the
\* next conditional block, the definitions made and the diagnostics issued.
MacroSets == SUBSET {"__GNUC__", "__clang__"}

\* the conditional blocks of core.h, in the order of the file
Blocks == <<"ag_compiler", "ag_pure", "ag_hot", "ag_cold", "ag_likely", "ag_unlikely">>

NoDefs == [ag_compiler |-> None, ag_pure |-> "undefined", ag_hot |-> "undefined",
           ag_cold |-> "undefined", ag_likely |-> "undefined",
           ag_unlikely |-> "undefined"]

NewBuild(ms, h) ==
    [macros |-> ms, halt |-> h, pos |-> 1, defs |-> NoDefs, diags |-> <<>>]

Failed(b) == \E i \in 1..Len(b.diags) : b.diags[i].kind = "error"

Define(b, name, d) == [b EXCEPT !.defs = [@ EXCEPT ![name] = d]]

Diag(b, k, name) == [b EXCEPT !.diags = Append(@, [kind |-> k, what |-> name])]

\* defined __GNUC__ || defined __clang__
GnuCompatible(b) == "__GNUC__" \in b.macros \/ "__clang__" \in b.macros

\* #if (defined __GNUC__) ... #elif (defined __clang__) ... #else #error
CompilerBlock(b) ==
    IF "__GNUC__" \in b.macros THEN Define(b, "ag_compiler", AG_COMPILER_GNUC)
    ELSE IF "__clang__" \in b.macros THEN Define(b, "ag_compiler", AG_COMPILER_CLANG)
    ELSE Diag(b, "error", "ag_compiler")

\* ag_pure, ag_hot, ag_cold: __attribute__((...)), or nothing with a warning
AttributeBlock(b, name) ==
    IF GnuCompatible(b) THEN Define(b, name, "attribute")
    ELSE Diag(Define(b, name, "empty"), "warning", name)

\* ag_likely, ag_unlikely: __builtin_expect, or nothing with a warning
HintBlock(b, name) ==
    IF GnuCompatible(b) THEN Define(b, name, "builtin")
    ELSE Diag(Define(b, name, "bare"), "warning", name)

Block(b, name) ==
    CASE name = "ag_compiler" -> CompilerBlock(b)
      [] name \in {"ag_pure", "ag_hot", "ag_cold"} -> AttributeBlock(b, name)
      [] name \in {"ag_likely", "ag_unlikely"} -> HintBlock(b, name)

\* the value of ag_likely (p) or ag_unlikely (p) as the translation defined it
HintValue(b, name, p) ==
    IF b.defs[name] = "bare" THEN hint_bare(p)
    ELSE IF name = "ag_likely" THEN ag_likely(p) ELSE ag_unlikely(p)

PVals == (0 - HintRange)..HintRange

InitHint ==
    /\ \E ms \in MacroSets, h \in BOOLEAN : stack = <<NewBuild(ms, h)>>
    /\ last = NoOp
    /\ steps = 0

\* the translator processes the next conditional block of core.h
Preprocess ==
    /\ Top.pos <= Len(Blocks)
    /\ ~(Top.halt /\ Failed(Top))
    /\ stack' = <<[Block(Top, Blocks[Top.pos]) EXCEPT !.pos = @ + 1]>>
    /\ last' = [NoOp EXCEPT !.op = "block", !.arg = Blocks[Top.pos]]
    /\ UNCHANGED steps

\* the example main: #if AG_COMPILER_GNUC == ag_compiler () ...
UseCompiler ==
    /\ Top.defs.ag_compiler # None
    /\ last' = [NoOp EXCEPT !.op = "ag_compiler", !.val = Top.defs.ag_compiler]
    /\ UNCHANGED <<stack, steps>>

\* if (ag_likely (p)) ... and if (ag_unlikely (p)) ...: e is 1 when the
\* branch is taken
UseHint ==
    /\ \E name \in {"ag_likely", "ag_unlikely"}, p \in PVals :
          /\ Top.defs[name] # "undefined"
          /\ LET v == HintValue(Top, name, p)
             IN  last' = [NoOp EXCEPT !.op = name, !.p = p, !.val = v,
                                      !.e = IF v # 0 THEN 1 ELSE 0]
    /\ UNCHANGED <<stack, steps>>

\* a translation that ended without error
Built(b) == b.pos > Len(Blocks) /\ ~Failed(b)

\* ag_assert(p, e) and ag_try(r) in a program the translation produced: val
\* is 1 when the check jumped to the catch block
UseCheck ==
    /\ Built(Top)
    /\ \E p \in PVals :
          \/ LET g == ag_assert(AG_TRY(NewFrame), p, UserCode)
             IN  last' = [NoOp EXCEPT !.op = "ag_assert", !.p = p, !.e = UserCode,
                                      !.val = IF g.pc = "catch" THEN 1 ELSE 0]
          \/ /\ p >= 0
             /\ LET g == ag_try(AG_TRY(NewFrame), p)
                IN  last' = [NoOp EXCEPT !.op = "ag_try", !.p = p, !.e = p,
                                         !.val = IF g.pc = "catch" THEN 1 ELSE 0]
    /\ UNCHANGED <<stack, steps>>

\* The text of the checks.  A piece of program text is a tree: op names the
\* construct, name the macro argument or the label it mentions, val the
\* value of a constant, args the sub-trees.
Node(op, name, val, args) == [op |-> op, name |-> name, val |-> val, args |-> args]

\* an argument of the macro, written where the replacement list names it
Arg(name) == Node("arg", name, None, <<>>)

\* __builtin_expect(!!(p), (p)): a definition that names its argument twice
Expand_ag_unlikely_twice(how, x) ==
    Node("expect", "", None, <<Node("not", "", None, <<Node("not", "", None, <<x>>)>>), x>>)

\* ag_unlikely (x): (__builtin_expect(!!(x), 0)), or with the empty
\* definition the parenthesised x
Expand_ag_unlikely(how, x) ==
    IF how = "bare" THEN x
    ELSE Node("expect", "", None,
              <<Node("not", "", None, <<Node("not", "", None, <<x>>)>>),
                Node("const", "", 0, <<>>)>>)

\* do { if (ag_unlikely (!(p))) { ag__erno__ = (e); goto AG__CATCH__; } } while (0)
Expand_ag_assert(how) ==
    Node("do_while_0", "", None,
         <<Node("if", "", None,
                <<Expand_ag_unlikely(how, Node("not", "", None, <<Arg("p")>>)),
                  Node("block", "", None,
                       <<Node("assign", "ag__erno__", None, <<Arg("e")>>),
                         Node("goto", "AG__CATCH__", None, <<>>)>>)>>)>>)

\* do { if (ag_unlikely (ag__erno__ = (p))) goto AG__CATCH__ ; } while (0)
Expand_ag_try(how) ==
    Node("do_while_0", "", None,
         <<Node("if", "", None,
                <<Expand_ag_unlikely(how, Node("assign", "ag__erno__", None, <<Arg("p")>>)),
                  Node("goto", "AG__CATCH__", None, <<>>)>>)>>)

\* the state of an execution of such text: the values env of the macro
\* arguments, the number of times n each was evaluated, the slot, the label
\* control jumped to and the value of the expression evaluated last
NewRun(pv, ev) ==
    [env |-> [p |-> pv, e |-> ev], n |-> [p |-> 0, e |-> 0],
     erno |-> AG_ERNO_NULL, jumped |-> "", val |-> None]

\* the execution of the tree t from the state s, as C executes it
RECURSIVE Run(_, _), RunAll(_, _, _)
Run(t, s) ==
    CASE t.op = "arg" -> [s EXCEPT !.n[t.name] = @ + 1, !.val = s.env[t.name]]
      [] t.op = "const" -> [s EXCEPT !.val = t.val]
      [] t.op = "not" -> LET s1 == Run(t.args[1], s) IN [s1 EXCEPT !.val = CNot(@)]
      [] t.op = "expect" -> LET s1 == Run(t.args[1], s)
                            IN  [Run(t.args[2], s1) EXCEPT !.val = s1.val]
      [] t.op = "assign" -> LET s1 == Run(t.args[1], s) IN [s1 EXCEPT !.erno = s1.val]
      [] t.op = "if" -> LET s1 == Run(t.args[1], s)
                        IN  IF s1.val # 0 THEN Run(t.args[2], s1) ELSE s1
      [] t.op = "goto" -> [s EXCEPT !.jumped = t.name]
      [] t.op \in {"block", "do_while_0"} -> RunAll(t.args, 1, s)

\* the statements of a block from statement i on, up to a goto
RunAll(ts, i, s) ==
    IF i > Len(ts) \/ s.jumped # "" THEN s ELSE RunAll(ts, i + 1, Run(ts[i], s))

\* one execution of ag_assert(p, e) or of ag_try(call), with arguments whose
\* evaluations are counted
EvalCheck ==
    /\ Top.pos > Len(Blocks)
    /\ \E pv \in PVals, ev \in ParCodes :
          \/ LET s == Run(Expand_ag_assert(Top.defs.ag_unlikely), NewRun(pv, ev))
             IN  last' = [NoOp EXCEPT !.op = "text of ag_assert", !.p = pv, !.e = ev,
                                      !.val = s.erno, !.arg = s.n]
          \/ /\ pv >= 0
             /\ LET s == Run(Expand_ag_try(Top.defs.ag_unlikely), NewRun(pv, ev))
                IN  last' = [NoOp EXCEPT !.op = "text of ag_try", !.p = pv,
                                         !.val = s.erno, !.arg = s.n]
    /\ UNCHANGED <<stack, steps>>

NextHint ==
    \/ Preprocess
    \/ UseCompiler
    \/ UseHint
    \/ UseCheck
    \/ EvalCheck

SpecHint == InitHint /\ [][NextHint]_vars

(* ---- the primitive types, core.h:286-518 ----------------------------------- *)
\* An integer is a sign and a magnitude, the magnitude a sequence of bytes
\* with the least significant byte first and no zero byte at its end; an
\* object of an integer type is the sequence of the bytes of its
\* representation, least significant first.
SizedAliases ==
    {"ag_word_8", "ag_word_16", "ag_word_32", "ag_word_64",
     "ag_int_8", "ag_int_16", "ag_int_32", "ag_int_64",
     "ag_uint_8", "ag_uint_16", "ag_uint_32", "ag_uint_64"}

Aliases == SizedAliases \cup {"ag_erno"}

\* the widths uint_fast64_t may have: at least 64 bits
FastWidths == {64, 128}

\* ag_word_16 declared as uint8_t
Bits_word_16_as_8(a, fast) ==
    CASE a \in {"ag_word_8", "ag_int_8", "ag_uint_8", "ag_word_16"} -> 8
      [] a \in {"ag_int_16", "ag_uint_16"} -> 16
      [] a \in {"ag_word_32", "ag_int_32", "ag_uint_32"} -> 32
      [] a \in {"ag_word_64", "ag_int_64", "ag_uint_64"} -> 64
      [] a = "ag_erno" -> fast

\* the width of the type each alias names: uint8_t .. uint64_t,
\* int8_t .. int64_t, and uint_fast64_t for ag_word and so for ag_erno
Bits(a, fast) ==
    CASE a \in {"ag_word_8", "ag_int_8", "ag_uint_8"} -> 8
      [] a \in {"ag_word_16", "ag_int_16", "ag_uint_16"} -> 16
      [] a \in {"ag_word_32", "ag_int_32", "ag_uint_32"} -> 32
      [] a \in {"ag_word_64", "ag_int_64", "ag_uint_64"} -> 64
      [] a = "ag_erno" -> fast

\* the aliases of the signed types int8_t .. int64_t
IsSigned(a) == a \in {"ag_int_8", "ag_int_16", "ag_int_32", "ag_int_64"}

Bytes(a, fast) == Bits(a, fast) \div 8

RECURSIVE Trim(_)
Trim(s) ==
    IF s = <<>> THEN <<>>
    ELSE IF s[Len(s)] = 0 THEN Trim(SubSeq(s, 1, Len(s) - 1)) ELSE s

\* the n low bytes of the magnitude s
Low(s, n) == [i \in 1..n |-> IF i <= Len(s) THEN s[i] ELSE 0]

Invert(s) == [i \in 1..Len(s) |-> 255 - s[i]]

\* s + 1 modulo 256^Len(s)
RECURSIVE Inc(_)
Inc(s) ==
    IF s = <<>> THEN <<>>
    ELSE IF s[1] < 255 THEN <<s[1] + 1>> \o Tail(s)
    ELSE <<0>> \o Inc(Tail(s))

\* -s modulo 256^Len(s)
Negate(s) == Inc(Invert(s))

Nat2Val(s) == [neg |-> FALSE, mag |-> Trim(s)]
Neg2Val(s) == [neg |-> Trim(s) # <<>>, mag |-> Trim(s)]

\* a small non-negative number, as an error code is
IntVal(c) == Nat2Val(<<c>>)

\* the conversion of the integer v to a type of n bytes: v modulo 256^n
ToObject(n, v) == IF v.neg THEN Negate(Low(v.mag, n)) ELSE Low(v.mag, n)

\* the value of the object b of an unsigned or of a signed (two's complement)
\* type
FromObject(signed, b) ==
    IF signed /\ b[Len(b)] >= 128 THEN Neg2Val(Negate(b)) ELSE Nat2Val(b)

Zeros(n) == [i \in 1..n |-> 0]
Ones(n) == [i \in 1..n |-> 255]

\* 2^(8n) - 1 and 2^(8n)
UMax(n) == Nat2Val(Ones(n))
UOver(n) == Nat2Val(Zeros(n) \o <<1>>)

\* 2^(8n-1) - 1 and 2^(8n-1), -2^(8n-1) and -2^(8n-1) - 1
SMax(n) == Nat2Val(Ones(n - 1) \o <<127>>)
SOver(n) == Nat2Val(Zeros(n - 1) \o <<128>>)
SMin(n) == Neg2Val(Zeros(n - 1) \o <<128>>)
SUnder(n) == Neg2Val(Inc(Zeros(n - 1) \o <<128>>))

\* the number of bytes each alias is documented to have ("8-bit word value",
\* "64-bit signed integer", ...); ag_erno holds a native word, here 8 bytes
Documented ==
    [ag_word_8 |-> 1, ag_word_16 |-> 2, ag_word_32 |-> 4, ag_word_64 |-> 8,
     ag_int_8 |-> 1, ag_int_16 |-> 2, ag_int_32 |-> 4, ag_int_64 |-> 8,
     ag_uint_8 |-> 1, ag_uint_16 |-> 2, ag_uint_32 |-> 4, ag_uint_64 |-> 8,
     ag_erno |-> 8]

\* the boundary values of the documented range of an alias
Boundaries(a) ==
    IF IsSigned(a) THEN {SMin(Documented[a]), SMax(Documented[a])}
    ELSE {IntVal(0), UMax(Documented[a])}

\* the values assigned to an object of n bytes: the boundaries of both
\* ranges, their neighbours outside the ranges, and the reserved codes
Values(n) ==
    {UMax(n), UOver(n), SMax(n), SOver(n), SMin(n), SUnder(n), Neg2Val(<<1>>)}
        \cup {IntVal(c) : c \in Reserved}

\* stack holds one object: the width fast of uint_fast64_t on the platform, the
\* alias the object is declared with, its bytes and the value put assigned
InitType ==
    /\ \E fw \in FastWidths :
          stack = <<[fast |-> fw, alias |-> "none", bytes |-> <<>>, put |-> IntVal(0)]>>
    /\ last = NoOp
    /\ steps = 0

\* a x = v; for an alias a
AssignStmt ==
    /\ \E a \in Aliases :
          \E v \in Values(Documented[a]) :
              stack' = <<[Top EXCEPT !.alias = a, !.put = v,
                                     !.bytes = ToObject(Bytes(a, Top.fast), v)]>>
    /\ last' = [NoOp EXCEPT !.op = "assign"]
    /\ UNCHANGED steps

\* the value of x
ReadStmt ==
    /\ Top.alias # "none"
    /\ last' = [NoOp EXCEPT !.op = "read",
                            !.arg = FromObject(IsSigned(Top.alias), Top.bytes)]
    /\ UNCHANGED <<stack, steps>>

NextType ==
    \/ AssignStmt
    \/ ReadStmt

SpecType == InitType /\ [][NextType]_vars

(* ---- the variants of the error layer ---------------------------------------- *)
\* The unnamed source holds the layer twice more, with the prefixes arc_ and
\* agc_.  AGC_TRY / ARC_TRY, agc_assert / arc_assert, the CATCH and FINALLY
\* markers and the accessors are the text of core.h with the prefix changed,
\* so the operators of core.h stand for them; the propagating checks are
\* translated one by one.  stack holds one record: the variant, the activation
\* act, and the value rush of a variable rush__erno__ of the client's that is
\* in scope of the function body (Undeclared if the client declares none).
Variants == {"ag", "agc", "arc"}

\* statements one activation of a variant executes
MaxVarStmts == 2

\* if (agc_unlikely (agc__erno__ = (p))) goto AGC__CATCH__;
agc_try(f, r) ==
    LET g == [f EXCEPT !.erno = r]
    IN  IF ag_unlikely(g.erno) # 0 THEN Goto(g, "AG__CATCH__") ELSE g

\* if (arc_unlikely (rush__erno__ = (p))) goto ARC__CATCH__;
\* without a rush__erno__ in scope the function body is not translated
arc_try(a, r) ==
    IF a.rush = Undeclared THEN [a EXCEPT !.act.pc = "build_error"]
    ELSE LET b == [a EXCEPT !.rush = r]
         IN  IF ag_unlikely(b.rush) # 0
             THEN [b EXCEPT !.act = Goto(@, "AG__CATCH__")]
             ELSE b

\* the propagating check of the variant of a
TryOf(a, r) ==
    CASE a.variant = "ag" -> [a EXCEPT !.act = ag_try(@, r)]
      [] a.variant = "agc" -> [a EXCEPT !.act = agc_try(@, r)]
      [] a.variant = "arc" -> arc_try(a, r)

InitVar ==
    /\ \E v \in Variants, rush \in {Undeclared, AG_ERNO_NULL} :
          stack = <<[variant |-> v, rush |-> rush, act |-> NewFrame]>>
    /\ last = NoOp
    /\ steps = 0

VarRun == InBody(Top.act) /\ steps < MaxVarStmts

\* AG_TRY, AGC_TRY or ARC_TRY
VarEnter ==
    /\ Top.act.pc = "start"
    /\ stack' = <<[Top EXCEPT !.act = AG_TRY(@)]>>
    /\ last' = Op("AG_TRY", Top.act, None, None, None)
    /\ UNCHANGED steps

\* ag_assert(p, e), agc_assert(p, e) or arc_assert(p, e)
VarAssert ==
    /\ VarRun
    /\ \E p \in ParPreds, e \in ParCodes :
          LET g == ag_assert(Top.act, p, e)
          IN  /\ stack' = <<[Top EXCEPT !.act =
                               Observe(Top.act, g, "ag_assert", p = 0, e, p = 0, Other)]>>
              /\ last' = Op("ag_assert", Top.act, p, e, None)
    /\ steps' = steps + 1

\* ag_try(expr), agc_try(expr) or arc_try(expr), expr yielding r
VarTry ==
    /\ VarRun
    /\ \E r \in ParCodes :
          LET b == TryOf(Top, r)
          IN  /\ stack' = <<[b EXCEPT !.act =
                               Observe(Top.act, @, "ag_try", r # 0, r,
                                       b.act.erno # Top.act.erno, Other)]>>
              /\ last' = Op("ag_try", Top.act, None, r, None)
    /\ steps' = steps + 1

VarEndTry ==
    /\ InBody(Top.act) /\ Top.act.pc = "try"
    /\ stack' = <<[Top EXCEPT !.act = AG_CATCH(@)]>>
    /\ last' = Op("AG_CATCH", Top.act, None, None, None)
    /\ UNCHANGED steps

VarEndCatch ==
    /\ InBody(Top.act) /\ Top.act.pc = "catch"
    /\ stack' = <<[Top EXCEPT !.act = AG_FINALLY(@)]>>
    /\ last' = Op("AG_FINALLY", Top.act, None, None, None)
    /\ UNCHANGED steps

\* return ag_erno_get(); return agc_erno_get(); or return arc_erno_get();
VarReturn ==
    /\ InBody(Top.act) /\ Top.act.pc = "finally"
    /\ LET v == ag_erno_get(Top.act)
           d == [Top.act EXCEPT !.pc = "done", !.retval = v]
       IN  /\ stack' = <<[Top EXCEPT !.act = d]>>
           /\ last' = [Op("return", Top.act, None, None, v) EXCEPT !.fin = d]
    /\ UNCHANGED steps

NextVar ==
    \/ VarEnter
    \/ VarAssert
    \/ VarTry
    \/ VarEndTry
    \/ VarEndCatch
    \/ VarReturn

SpecVar == InitVar /\ [][NextVar]_vars

(* ---- one activation of a fixed program --------------------------------------- *)
\* A function body is fixed when the run begins: the statements of its try,
\* catch and finally blocks.  A statement is a non-check statement ("work"),
\* ag_assert(0, UserCode) ("ag_assert_0"), an ag_assert whose predicate is
\* false on the first visit only ("ag_assert_first"), or ag_try of a call
\* that yields UserCode on every visit ("ag_try_c").  stack holds one record:
\* the program prog, the activation act, the index at of the next statement
\* of the block act.pc, the number of times each statement was executed and
\* the number of times each block was entered, both counted up to MaxCount.
StmtKinds == {"work", "ag_assert_0", "ag_assert_first", "ag_try_c"}

\* statements of a function body, over its three blocks
MaxProgLen == 3
\* the count at which the counters of executions and entries stop
MaxCount == 2

RegionNames == {"try", "catch", "finally"}

UpTo(n) == IF n < MaxCount THEN n + 1 ELSE MaxCount

\* the activation without the list of the regions it entered, which the
\* counters replace
Forget(f) == [f EXCEPT !.regions = <<>>]

InitLoop ==
    /\ \E a \in 0..MaxProgLen :
          \E b \in 0..(MaxProgLen - a) :
              \E c \in 0..(MaxProgLen - a - b) :
                  \E t \in [1..a -> StmtKinds], h \in [1..b -> StmtKinds],
                     z \in [1..c -> StmtKinds] :
                      stack = <<[prog |-> [try |-> t, catch |-> h, finally |-> z],
                                 act |-> NewFrame, at |-> 1,
                                 exec |-> [try |-> [i \in 1..a |-> 0],
                                           catch |-> [i \in 1..b |-> 0],
                                           finally |-> [i \in 1..c |-> 0]],
                                 enters |-> [r \in RegionNames |-> 0]]>>
    /\ last = NoOp
    /\ steps = 0

\* control has moved to the beginning of the block g.pc
Entered(a, g) ==
    [a EXCEPT !.act = Forget(g), !.at = 1, !.enters[g.pc] = UpTo(@)]

\* steps counts the steps of the activation modulo 2, so that a loop of the
\* program is a cycle of states also when the other counters have stopped
Tick == (steps + 1) % 2

\* what the statement of kind k does to the activation f on its visit number n
Exec(k, f, n) ==
    CASE k = "work" -> f
      [] k = "ag_assert_0" -> ag_assert(f, 0, UserCode)
      [] k = "ag_assert_first" -> ag_assert(f, IF n = 0 THEN 0 ELSE 1, UserCode)
      [] k = "ag_try_c" -> ag_try(f, UserCode)

\* AG_TRY at the beginning of the function body
LoopEnter ==
    /\ Top.act.pc = "start"
    /\ stack' = <<Entered(Top, AG_TRY(Top.act))>>
    /\ last' = Op("AG_TRY", Top.act, None, None, None)
    /\ steps' = Tick

\* the next statement of the block
LoopStmt ==
    /\ InBody(Top.act)
    /\ Top.at <= Len(Top.prog[Top.act.pc])
    /\ LET r == Top.act.pc
           k == Top.prog[r][Top.at]
           g == Exec(k, Top.act, Top.exec[r][Top.at])
           counted == [Top EXCEPT !.exec[r][Top.at] = UpTo(@)]
           jumped == Len(g.regions) > Len(Top.act.regions)
       IN  /\ stack' = <<IF jumped THEN Entered(counted, g)
                         ELSE [counted EXCEPT !.act = g, !.at = @ + 1]>>
           /\ last' = [Op(k, Top.act, None, None, IF jumped THEN 1 ELSE 0)
                         EXCEPT !.arg = [at |-> Top.at]]
    /\ steps' = Tick

\* the end of the try block: control reaches AG_CATCH
LoopEndTry ==
    /\ InBody(Top.act) /\ Top.act.pc = "try"
    /\ Top.at > Len(Top.prog.try)
    /\ stack' = <<Entered(Top, AG_CATCH(Top.act))>>
    /\ last' = Op("AG_CATCH", Top.act, None, None, None)
    /\ steps' = Tick

\* the end of the catch block: control reaches AG_FINALLY
LoopEndCatch ==
    /\ InBody(Top.act) /\ Top.act.pc = "catch"
    /\ Top.at > Len(Top.prog.catch)
    /\ stack' = <<Entered(Top, AG_FINALLY(Top.act))>>
    /\ last' = Op("AG_FINALLY", Top.act, None, None, None)
    /\ steps' = Tick

\* return ag_erno_get(); at the end of the finally block
LoopReturn ==
    /\ InBody(Top.act) /\ Top.act.pc = "finally"
    /\ Top.at > Len(Top.prog.finally)
    /\ LET v == ag_erno_get(Top.act)
           d == [Top.act EXCEPT !.pc = "done", !.retval = v]
       IN  /\ stack' = <<[Top EXCEPT !.act = d]>>
           /\ last' = [Op("return", Top.act, None, None, v) EXCEPT !.fin = d]
    /\ steps' = Tick

NextLoop ==
    \/ LoopEnter
    \/ LoopStmt
    \/ LoopEndTry
    \/ LoopEndCatch
    \/ LoopReturn

SpecLoop == InitLoop /\ [][NextLoop]_vars

\* a function body that is being executed goes on executing
SpecLoopFair == SpecLoop /\ WF_vars(NextLoop)

(* ---- properties ----------------------------------------------------------- *)
Frames == {stack[i] : i \in 1..Len(stack)}

Count(seq, r) == Cardinality({i \in 1..Len(seq) : seq[i] = r})

\* the activation that has just returned
Fin == last.fin

Returned == last.op = "return"

\* C1: ag_assert(p, e) with p false, for every code e, sets the slot to
\* exactly e and moves control to the start of the catch block; no statement
\* of the try block runs after a failed check.
C1_AssertFalseRaises ==
    /\ (last.op = "ag_assert" /\ last.p = 0) =>
          /\ Top.erno = last.e
          /\ Top.pc = "catch"
          /\ Top.regions[Len(Top.regions)] = "catch"
    /\ \A f \in Frames : ~f.after

C1_Witness ==
    /\ last.op = "ag_assert" /\ last.p = 0 /\ last.pc0 = "try"
    /\ last.e = UserCode /\ last.erno0 = AG_ERNO_NULL
    /\ Top.pc = "catch"

\* C2: ag_assert(p, e) with p true (any non-zero value) leaves the slot as it
\* was and control stays in the region, at the next statement.
C2_AssertTrueFallsThrough ==
    (last.op = "ag_assert" /\ last.p # 0) =>
        /\ Top.erno = last.erno0
        /\ Top.pc = last.pc0
        /\ Len(Top.regions) = last.nreg0

C2_Witness ==
    /\ last.op = "ag_assert" /\ last.p = 2 /\ last.pc0 = "try"
    /\ last.erno0 = AG_ERNO_STATE /\ Top.erno = AG_ERNO_STATE /\ Top.pc = "try"

\* the slot and the region a failed ag_assert(false, c) leaves, from the slot
\* value s and region r
AfterFailedAssert(s, r, c) ==
    LET g == ag_assert([NewFrame EXCEPT !.erno = s, !.pc = r], 0, c)
    IN  <<g.erno, g.pc>>

\* C3: ag_try(call) whose call yields c # 0 stores c in the slot and moves
\* control to the start of the catch block, as ag_assert(false, c) does.
C3_TryForwardsFailure ==
    (last.op = "ag_try" /\ last.e # 0) =>
        /\ Top.erno = last.e
        /\ Top.pc = "catch"
        /\ <<Top.erno, Top.pc>> = AfterFailedAssert(last.erno0, last.pc0, last.e)
        /\ ~Top.after

C3_Witness ==
    /\ last.op = "ag_try" /\ last.e = AG_ERNO_STATE /\ last.pc0 = "try"
    /\ Len(stack) = 1 /\ Top.ret = AG_ERNO_STATE
    /\ Top.erno = AG_ERNO_STATE /\ Top.pc = "catch"

\* C4: ag_try(call) in the try block whose call yields zero leaves the slot as
\* it was, whatever it held, and control falls through.
C4_TryZeroIsNoOp ==
    (last.op = "ag_try" /\ last.e = 0 /\ last.pc0 = "try") =>
        /\ Top.erno = last.erno0
        /\ Top.pc = last.pc0
        /\ Len(Top.regions) = last.nreg0

\* C5: in an activation that keeps its checks in the try block the finally
\* block is entered exactly once: never twice, once when the activation
\* returns, and both the end of the try block and the end of the catch block
\* lead into it.
C5_FinallyExactlyOnce ==
    /\ \A f \in Frames : ~f.viol => Count(f.regions, "finally") <= 1
    /\ (Returned /\ ~Fin.viol) => Count(Fin.regions, "finally") = 1
    /\ (last.op \in {"AG_CATCH", "AG_FINALLY"} /\ ~Top.viol) =>
          /\ Top.pc = "finally"
          /\ Count(Top.regions, "finally") = 1

C5_Witness ==
    /\ Returned /\ ~Fin.viol
    /\ Fin.regions = <<"try", "catch", "finally">>
    /\ Fin.firstFail = AG_ERNO_HANDLE

\* C6: in an activation that keeps its checks in the try block the catch
\* block is entered if and only if a check failed, and the end of the try
\* block leads to the finally block without passing the catch block.
C6_CatchOnlyOnFailure ==
    /\ \A f \in Frames \cup {Fin} :
          ~f.viol => ((Count(f.regions, "catch") > 0) <=> (f.firstFail # None))
    /\ last.op = "AG_CATCH" =>
          /\ Top.pc = "finally"
          /\ Count(Top.regions, "catch") = 0

C6_Witness ==
    /\ last.op = "AG_CATCH" /\ Top.pc = "finally" /\ steps = 2
    /\ Top.firstFail = None /\ ~Top.viol

\* a returned activation that kept its checks in the try block and in which
\* no check failed
Succeeded == Returned /\ ~Fin.viol /\ Fin.firstFail = None

\* C7 as stated: with no failure the regions run in the order try, catch,
\* finally.
C7_SuccessRunsCatch ==
    Succeeded => Fin.regions = <<"try", "catch", "finally">>

\* C7 as amended: with no failure control goes from the end of the try block
\* straight to the finally block; the catch block does not run.
C7_SuccessSkipsCatch ==
    Succeeded => Fin.regions = <<"try", "finally">>

C7_Witness ==
    /\ Succeeded /\ Fin.regions = <<"try", "finally">>
    /\ Fin.retval = AG_ERNO_NULL /\ Fin.sole = <<1>>

\* an activation whose try block holds only checks and calls and whose catch
\* and finally blocks do not assign the slot
OnlyChecks(f) == "try" \notin f.sets /\ f.wr \cap {"catch", "finally"} = {}

\* C8: such an activation returns the code of its first failing check, and
\* AG_ERNO_NULL if no check failed; with the single statement
\* ag_assert(x > 0, AG_ERNO_RANGE) it returns AG_ERNO_RANGE when x <= 0 and
\* AG_ERNO_NULL when x > 0.
C8_ReturnsFirstFailure ==
    (Returned /\ OnlyChecks(Fin)) =>
        /\ Fin.retval = IF Fin.firstFail = None THEN AG_ERNO_NULL ELSE Fin.firstFail
        /\ Len(Fin.sole) = 1 =>
              Fin.retval = IF Fin.sole[1] <= 0 THEN AG_ERNO_RANGE ELSE AG_ERNO_NULL

C8_Witness ==
    /\ Returned /\ OnlyChecks(Fin) /\ Fin.sole = <<-1>>
    /\ Fin.retval = AG_ERNO_RANGE

\* the code with which the chain of ag_try calls that ends in f first failed
Origin(f) == IF f.src # None THEN f.src ELSE f.firstFail

\* the regions in which f and the activations of its chain assigned the slot
ChainWrites(f) == f.wr \cup f.below

\* C9 as stated: if the deepest activation of a chain of ag_try calls fails
\* with c # 0 and no catch block of the chain assigns the slot, every
\* activation of the chain returns c (read for chains of two or more
\* activations that keep their checks in their try blocks).
C9_ChainReturnsCode ==
    (Returned /\ Fin.chain >= 1 /\ ~Fin.viol
              /\ Origin(Fin) \notin {None, 0}
              /\ ChainWrites(Fin) \cap {"catch", "viol"} = {}) =>
        Fin.retval = Origin(Fin)

\* C9 as amended: if the deepest activation of a chain of ag_try calls fails
\* with c # 0 and neither a catch block nor a finally block of the chain
\* assigns the slot, every activation of the chain returns c.
C9_CleanChainReturnsCode ==
    (Returned /\ Origin(Fin) \notin {None, 0}
              /\ ChainWrites(Fin) \cap {"catch", "finally"} = {}) =>
        Fin.retval = Origin(Fin)

C9_Witness ==
    /\ Returned /\ Len(stack) = 1 /\ Fin.src = AG_ERNO_STATE
    /\ Fin.chain = 2 /\ Fin.firstFail = AG_ERNO_STATE
    /\ ChainWrites(Fin) = {"try"} /\ Fin.retval = AG_ERNO_STATE

\* C10: ag_erno_get() right after ag_erno_set(e) yields e, in every region and
\* for every code.
C10_SetGetRoundTrip ==
    (last.op = "ag_erno_get" /\ last.e # None) => last.val = last.e

C10_Witness ==
    /\ last.op = "ag_erno_get" /\ last.e = UserCode /\ last.val = UserCode
    /\ last.pc0 = "finally"

\* the slot, the region and the number of regions entered that
\* ag_assert(p, c) leaves, from the slot value s and region r after n regions
AfterAssert(s, r, n, p, c) ==
    LET f0 == [NewFrame EXCEPT !.erno = s, !.pc = r, !.regions = [i \in 1..n |-> r]]
        g == ag_assert(f0, p, c)
    IN  <<g.erno, g.pc, Len(g.regions)>>

Now == <<Top.erno, Top.pc, Len(Top.regions)>>

\* C11: ag_assert_string(s) raises AG_ERNO_STRING and moves to the catch block
\* when s is null and when s is empty, leaves slot and control as they were
\* for every other s, and does not read *(s) when s is null.
C11_AssertString ==
    last.op = "ag_assert_string" =>
        /\ (last.arg.null \/ Len(last.arg.chars) = 0) =>
              (Top.erno = AG_ERNO_STRING /\ Top.pc = "catch"
                 /\ Len(Top.regions) = last.nreg0 + 1)
        /\ (~last.arg.null /\ Len(last.arg.chars) > 0) =>
              Now = <<last.erno0, last.pc0, last.nreg0>>
        /\ last.arg.null => last.val = 0

C11_Witness ==
    /\ last.op = "ag_assert_string" /\ last.pc0 = "try"
    /\ ~last.arg.null /\ last.arg.chars = <<>>
    /\ Top.erno = AG_ERNO_STRING /\ Top.pc = "catch" /\ last.val = 1

\* the reserved code of each wrapper
WrapperCode ==
    [ag_assert_handle |-> AG_ERNO_HANDLE, ag_assert_state |-> AG_ERNO_STATE,
     ag_assert_range |-> AG_ERNO_RANGE, ag_assert_string |-> AG_ERNO_STRING]

\* C12: ag_assert_handle(p), ag_assert_state(p) and ag_assert_range(p) leave
\* what ag_assert(p, AG_ERNO_HANDLE), ag_assert(p, AG_ERNO_STATE) and
\* ag_assert(p, AG_ERNO_RANGE) leave; on a false p the slot holds the
\* wrapper's own code.
C12_WrappersAreAsserts ==
    last.op \in {"ag_assert_handle", "ag_assert_state", "ag_assert_range"} =>
        /\ Now = AfterAssert(last.erno0, last.pc0, last.nreg0, last.p,
                             WrapperCode[last.op])
        /\ last.p = 0 => (Top.erno = WrapperCode[last.op] /\ Top.pc = "catch")

C12_Witness ==
    /\ last.op = "ag_assert_handle" /\ last.p = 0 /\ last.pc0 = "try"
    /\ last.erno0 = AG_ERNO_RANGE /\ Top.erno = AG_ERNO_HANDLE /\ Top.pc = "catch"

\* the wrappers that raise code c
KindsOf(c) == {w \in DOMAIN WrapperCode : WrapperCode[w] = c}

\* C13: AG_ERNO_NULL is zero, the five reserved codes are pairwise distinct
\* and the four failure codes non-zero, so the code an activation returns
\* after one of the four wrappers failed is not AG_ERNO_NULL and names that
\* wrapper and no other.
C13_ReservedCodesDistinct ==
    /\ AG_ERNO_NULL = 0
    /\ Cardinality(Reserved) = 5
    /\ (Returned /\ OnlyChecks(Fin) /\ Fin.failKind \in DOMAIN WrapperCode) =>
          (Fin.retval # AG_ERNO_NULL /\ KindsOf(Fin.retval) = {Fin.failKind})

C13_Witness ==
    /\ Returned /\ OnlyChecks(Fin) /\ Fin.failKind = "ag_assert_string"
    /\ Fin.retval = AG_ERNO_STRING

\* the statements that leave the activation that ran them on top of the stack
StmtOps == Checks \cup {"ag_erno_set", "ag_erno_get"}

\* the statement executed last was a check, and it failed
CheckFailed == last.op \in Checks /\ Len(Top.regions) = last.nreg0 + 1

\* C14 as stated: the slot starts at AG_ERNO_NULL, only a failing ag_assert or
\* a failing ag_try changes it, and once a check has failed it keeps the code
\* of that check, in every activation that keeps its checks in the try block.
C14_OnlyFailuresWriteSlot ==
    /\ last.op = "AG_TRY" => Top.erno = AG_ERNO_NULL
    /\ (last.op \in StmtOps /\ ~Top.viol /\ Top.erno # last.erno0) => CheckFailed
    /\ \A f \in Frames \cup {Fin} :
          (~f.viol /\ f.firstFail # None) => f.erno = f.firstFail

\* C14 as amended: the slot starts at AG_ERNO_NULL; a failing check, an ag_try
\* with a zero result and ag_erno_set are all that change it; an activation
\* that keeps its checks in the try block enters the catch block at most
\* once, and from then on the slot holds the code of the failed check unless
\* ag_erno_set is used in the catch or finally block.
C14_FailureIsTerminal ==
    /\ last.op = "AG_TRY" => Top.erno = AG_ERNO_NULL
    /\ (last.op \in StmtOps /\ Top.erno # last.erno0) =>
          \/ CheckFailed
          \/ last.op = "ag_erno_set"
          \/ last.op = "ag_try" /\ last.e = 0
    /\ \A f \in Frames \cup {Fin} :
          /\ ~f.viol => Count(f.regions, "catch") <= 1
          /\ (~f.viol /\ f.firstFail # None /\ f.sets \cap {"catch", "finally"} = {})
                => f.erno = f.firstFail

C14_Witness ==
    /\ Returned /\ ~Fin.viol /\ Fin.firstFail = AG_ERNO_RANGE
    /\ Fin.sets = {"try"} /\ Fin.regions = <<"try", "catch", "finally">>
    /\ Fin.retval = AG_ERNO_RANGE

\* C16: when a bare call B() returns, also with a non-zero code, the caller's
\* slot and region are what they were at the call; an activation in which no
\* check failed and that does not use ag_erno_set returns AG_ERNO_NULL.
C16_NoImplicitUnwinding ==
    /\ (Returned /\ last.arg.how = "plain") =>
          /\ Top.call = "none"
          /\ Now = <<last.arg.erno, last.arg.pc, last.arg.nreg>>
    /\ (Returned /\ Fin.firstFail = None /\ Fin.sets = {}) =>
          Fin.retval = AG_ERNO_NULL

C16_Witness ==
    /\ Returned /\ last.arg.how = "plain" /\ Fin.retval = AG_ERNO_STATE
    /\ Top.erno = AG_ERNO_NULL /\ Top.pc = "try" /\ Top.firstFail = None

\* C15: a statement of one activation, whatever it writes to that
\* activation's slot, leaves the value every other activation reads with
\* ag_erno_get as it was, in every interleaving of the activations.
C15_SlotsAreIndependent ==
    [][\A j \in 1..Len(stack) :
          j # last'.arg.who => ag_erno_get(stack'[j]) = ag_erno_get(stack[j])]_vars

C15_Witness ==
    /\ last.op = "ag_erno_get" /\ last.arg.who = 1 /\ last.val = AG_ERNO_HANDLE
    /\ stack[1].pc = "catch" /\ stack[1].firstFail = AG_ERNO_HANDLE
    /\ stack[2].pc = "try" /\ stack[2].erno = UserCode /\ stack[2].sets = {"try"}

\* C17: if (ag_likely (p)) and if (ag_unlikely (p)) take the branch exactly
\* when p is non-zero, as if (p) does, under either definition of the hints;
\* ag_assert(p, e) fails exactly when p is zero and ag_try(r) exactly when r is
\* non-zero, as they would with the hint removed.
C17_HintsKeepBranches ==
    /\ last.op \in {"ag_likely", "ag_unlikely"} => ((last.e = 1) <=> (last.p # 0))
    /\ last.op = "ag_assert" => ((last.val = 1) <=> (last.p = 0))
    /\ last.op = "ag_try" => ((last.val = 1) <=> (last.p # 0))

C17_Witness ==
    /\ last.op = "ag_unlikely" /\ last.p = -2 /\ last.e = 1
    /\ Top.defs.ag_unlikely = "builtin"

\* C18: ag_likely(p) and ag_unlikely(p) have the value of p under either
\* definition of the hints, so both definitions give the same value.
C18_HintsReturnP ==
    last.op \in {"ag_likely", "ag_unlikely"} => last.val = last.p

\* the diagnostics of a translation
Kinds(b) == {b.diags[i].kind : i \in 1..Len(b.diags)}

\* C19: with neither __GNUC__ nor __clang__ predefined the translation of
\* core.h issues warnings only, and ends with ag_pure, ag_hot and ag_cold
\* empty and ag_likely and ag_unlikely the bare predicate.
C19_DegradesWithWarnings ==
    Top.macros = {} =>
        /\ Kinds(Top) \subseteq {"warning"}
        /\ Top.pos > Len(Blocks) =>
              /\ \A n \in {"ag_pure", "ag_hot", "ag_cold"} : Top.defs[n] = "empty"
              /\ \A n \in {"ag_likely", "ag_unlikely"} : Top.defs[n] = "bare"

\* C20: ag_compiler() is AG_COMPILER_CLANG whenever __clang__ is predefined,
\* AG_COMPILER_GNUC when only __GNUC__ is, and the two constants differ.
C20_CompilerDetected ==
    /\ AG_COMPILER_GNUC # AG_COMPILER_CLANG
    /\ last.op = "ag_compiler" =>
          last.val = IF "__clang__" \in Top.macros THEN AG_COMPILER_CLANG
                     ELSE AG_COMPILER_GNUC

\* C21: an object of a sized alias that was assigned a boundary value of the
\* alias's range (0 and 2^w - 1 for ag_word_w and ag_uint_w, -2^(w-1) and
\* 2^(w-1) - 1 for ag_int_w) yields that value, and an ag_erno that was
\* assigned a reserved code yields that code.
C21_BoundariesRoundTrip ==
    last.op = "read" =>
        /\ (Top.alias \in SizedAliases /\ Top.put \in Boundaries(Top.alias))
              => last.arg = Top.put
        /\ (Top.alias = "ag_erno" /\ \E c \in Reserved : Top.put = IntVal(c))
              => last.arg = Top.put

C21_Witness ==
    /\ last.op = "read" /\ Top.alias = "ag_int_64"
    /\ Top.put = [neg |-> TRUE, mag |-> <<0, 0, 0, 0, 0, 0, 0, 128>>]
    /\ Top.bytes = <<0, 0, 0, 0, 0, 0, 0, 128>>
    /\ last.arg = Top.put

\* C22: in each of the variants ag_, agc_ and arc_ a propagating check whose
\* call yields c # 0 stores c in the slot the variant's erno_get reads and
\* moves control to the catch block, and an activation whose first failure is
\* such a check, that keeps its checks in the try block and does not use
\* ag_erno_set returns c.
C22_VariantsPropagate ==
    /\ (last.op = "ag_try" /\ last.e # 0) =>
          (ag_erno_get(Top.act) = last.e /\ Top.act.pc = "catch")
    /\ (Returned /\ Fin.failKind = "ag_try" /\ Fin.sets = {} /\ ~Fin.viol) =>
          Fin.retval = Fin.firstFail

\* the checks of a fixed program, and those that fail on every visit
LoopChecks == {"ag_assert_0", "ag_assert_first", "ag_try_c"}
AlwaysFail == {"ag_assert_0", "ag_try_c"}

\* the block named r of the program holds a check of the kinds ks
Holds(r, ks) == \E i \in 1..Len(Top.prog[r]) : Top.prog[r][i] \in ks

\* the statement executed last was a check of block r, and it failed
FailedIn(r) == last.op \in LoopChecks /\ last.pc0 = r /\ last.val = 1

RanAgain(k) ==
    /\ Top.enters.finally >= 2
    /\ \A j \in 1..Len(Top.prog.finally) : j < k => Top.exec.finally[j] >= 2

\* C24 as stated: a check that fails in the finally block moves control to the
\* first statement of the catch block; the statements of the finally block
\* before the check are then executed a second time, and the finally block is
\* entered again and again if the check fails on every visit.
C24_FinallyCheckReruns ==
    /\ [](FailedIn("finally") => (Top.act.pc = "catch" /\ Top.at = 1))
    /\ \A k \in 1..MaxProgLen :
          []((FailedIn("finally") /\ last.arg.at = k) => <>RanAgain(k))
    /\ []((FailedIn("finally") /\ last.op \in AlwaysFail)
            => []<>(Top.act.pc = "finally" /\ Top.at = 1))

\* C24 as amended: a check that fails in the finally block moves control to
\* the first statement of the catch block; if the catch block holds no check
\* that fails on every visit, the statements of the finally block before the
\* check are then executed a second time, and the finally block is entered
\* again and again if the check fails on every visit.
C24_FinallyCheckRerunsAfterCatch ==
    /\ [](FailedIn("finally") => (Top.act.pc = "catch" /\ Top.at = 1))
    /\ \A k \in 1..MaxProgLen :
          []((FailedIn("finally") /\ last.arg.at = k /\ ~Holds("catch", AlwaysFail))
                => <>RanAgain(k))
    /\ []((FailedIn("finally") /\ last.op \in AlwaysFail /\ ~Holds("catch", AlwaysFail))
            => []<>(Top.act.pc = "finally" /\ Top.at = 1))

C24_Witness ==
    /\ Top.prog = [try |-> <<>>, catch |-> <<"work">>,
                   finally |-> <<"work", "ag_assert_0">>]
    /\ FailedIn("finally") /\ last.arg.at = 2
    /\ Top.exec.catch = <<1>> /\ Top.exec.finally = <<2, 2>>
    /\ Top.act.pc = "catch"

\* a program that keeps its checks in the try block
Disciplined == ~Holds("catch", LoopChecks) /\ ~Holds("finally", LoopChecks)

\* the order of the regions of a function body
Rank(pc) ==
    CASE pc = "start" -> 0
      [] pc = "try" -> 1
      [] pc = "catch" -> 2
      [] pc = "finally" -> 3
      [] pc = "done" -> 4

\* C25: in an activation that keeps its checks in the try block control never
\* moves to an earlier region, every transfer of control enters a later
\* region, and the activation reaches its return.
C25_ForwardOnlyTerminates ==
    /\ [][Disciplined =>
            /\ Rank(Top.act.pc)' >= Rank(Top.act.pc)
            /\ Top.enters' # Top.enters => Rank(Top.act.pc)' > Rank(Top.act.pc)]_vars
    /\ Disciplined => <>(Top.act.pc = "done")

C25_Witness ==
    /\ Disciplined /\ Top.act.pc = "done"
    /\ Top.prog = [try |-> <<"work", "ag_try_c">>, catch |-> <<"work">>,
                   finally |-> <<>>]
    /\ Top.enters = [try |-> 1, catch |-> 1, finally |-> 1]
    /\ Top.act.retval = UserCode

\* C26: in an activation that keeps its checks in the try block and does not
\* use ag_erno_set in its catch block, the slot is not AG_ERNO_NULL while
\* control is in the catch block, whatever predicate and code a failed
\* ag_assert had and whatever result an ag_try stored; an activation that
\* returns AG_ERNO_NULL without having used ag_erno_set never entered its
\* catch block.
C26_CatchImpliesNonZero ==
    /\ \A f \in Frames :
          (f.pc = "catch" /\ ~f.viol /\ "catch" \notin f.sets)
              => ag_erno_get(f) # AG_ERNO_NULL
    /\ (Returned /\ ~Fin.viol /\ Fin.sets = {} /\ Fin.retval = AG_ERNO_NULL)
          => Count(Fin.regions, "catch") = 0

\* the activation B that has just returned a non-zero code to the ag_try of
\* its caller after one of the checks of its try block failed
CalleeFailed ==
    /\ Returned /\ Top.call = "ag_try_ret" /\ Top.ret # AG_ERNO_NULL
    /\ Fin.firstFail # None /\ ~Fin.viol

\* C27: when B has returned its failure to the ag_try(B()) of A, B has run
\* its catch block and then its finally block, and A's slot and region are
\* still what they were at the call; the next step stores B's code in A's
\* slot and enters A's catch block, with no statement of A in between; in no
\* activation that keeps its checks in the try block does the catch block
\* follow the finally block.
C27_UnwindingOrder ==
    /\ [](CalleeFailed =>
            /\ Fin.regions = <<"try", "catch", "finally">>
            /\ Now = <<last.arg.erno, last.arg.pc, last.arg.nreg>>)
    /\ [][CalleeFailed =>
            /\ last'.op = "ag_try" /\ Len(stack') = Len(stack)
            /\ Top'.call = "none" /\ Top'.pc = "catch" /\ Top'.erno = Top.ret
            /\ Len(Top'.regions) = Len(Top.regions) + 1]_vars
    /\ [](\A f \in Frames \cup {Fin} :
            ~f.viol => \A i, j \in 1..Len(f.regions) :
                          (f.regions[i] = "finally" /\ f.regions[j] = "catch") => j < i)

C27_Witness ==
    /\ CalleeFailed /\ Len(stack) = 1
    /\ Fin.regions = <<"try", "catch", "finally">> /\ Fin.retval = AG_ERNO_STATE
    /\ Top.erno = AG_ERNO_NULL /\ Top.pc = "try"

\* C28: passing AG_CATCH or AG_FINALLY and evaluating ag_erno_get() leave the
\* slot as it was, and return ag_erno_get() yields the value of the latest
\* assignment made by a failing ag_assert, an ag_try or an ag_erno_set of the
\* activation, AG_ERNO_NULL if there was none.
C28_MarkersKeepSlot ==
    /\ last.op \in {"AG_CATCH", "AG_FINALLY", "ag_erno_get"} =>
          ag_erno_get(Top) = last.erno0
    /\ Returned =>
          Fin.retval = IF Fin.lastWr = None THEN AG_ERNO_NULL ELSE Fin.lastWr

C28_Witness ==
    /\ Returned /\ Fin.firstFail = AG_ERNO_HANDLE /\ Fin.sets = {"catch"}
    /\ Fin.lastWr = UserCode /\ Fin.retval = UserCode
    /\ Fin.regions = <<"try", "catch", "finally">>

\* C29: one execution of ag_assert(p, e) evaluates p once, and e once when p
\* is false and not at all when p is true; one execution of ag_try(call)
\* evaluates call once, whether it yields zero or not.
C29_OperandsEvaluatedOnce ==
    /\ last.op = "text of ag_assert" =>
          /\ last.arg.p = 1
          /\ last.arg.e = IF last.p = 0 THEN 1 ELSE 0
    /\ last.op = "text of ag_try" =>
          /\ last.arg.p = 1
          /\ last.arg.e = 0

C29_Witness ==
    /\ last.op = "text of ag_assert" /\ last.p = 0 /\ last.e = UserCode
    /\ last.arg = [p |-> 1, e |-> 1] /\ last.val = UserCode
    /\ Top.defs.ag_unlikely = "builtin"

====
